---------------------------- MODULE Spec2Model ----------------------------
(***************************************************************************)
(* A model of theanolm's Vocabulary (theanolm/vocabulary/vocabulary.py):   *)
(* the normalizing constructor, the builders from_file, from_word_counts   *)
(* and from_state, compute_probs, get_state and the query methods.         *)
(*                                                                         *)
(* Floating-point numbers are modelled as exact non-negative rationals     *)
(* <<n, d>> in lowest terms, with <<0, 0>> for NaN and <<1, 0>> for +inf   *)
(* (the results numpy gives for 0/0 and x/0).                              *)
(***************************************************************************)
EXTENDS Integers, Sequences, FiniteSets, TLC

(***************************************************************************)
(* Bounds of the model.                                                    *)
(***************************************************************************)
MaxLines == 3        \* lines of a vocabulary file (SpecBuild)
MaxSmallLines == 2   \* lines of a vocabulary file (Spec)
MaxCounts == 3       \* entries of a word-count map (SpecBuild)
MaxSmallCounts == 2  \* entries of a word-count map (Spec)
MaxRaw == 2          \* words handed to the raw-list constructor (SpecBuild)
MaxSmallRaw == 2     \* total length of the two raw lists (Spec)
MaxOos == 2          \* length of oos_words
MaxQuery == 1        \* length of a query's input list
MaxStoreWords == 2   \* words besides the special tokens in a network state read

(***************************************************************************)
(* Numbers.                                                                *)
(***************************************************************************)
RECURSIVE GCD(_, _)
GCD(a, b) == IF b = 0 THEN a ELSE GCD(b, a % b)

NaN == <<0, 0>>
Inf == <<1, 0>>
Zero == <<0, 1>>
One == <<1, 1>>

IsNaN(p) == p = NaN

\* the float n/d, n >= 0, d >= 0
Frac(n, d) ==
    IF d = 0 THEN (IF n = 0 THEN NaN ELSE Inf)
    ELSE LET g == GCD(n, d) IN <<n \div g, d \div g>>

FAdd(p, q) ==
    IF IsNaN(p) \/ IsNaN(q) THEN NaN
    ELSE IF p = Inf \/ q = Inf THEN Inf
    ELSE Frac(p[1] * q[2] + q[1] * p[2], p[2] * q[2])

\* IEEE division as numpy performs it (no exception on a zero divisor)
FDiv(p, q) ==
    IF IsNaN(p) \/ IsNaN(q) THEN NaN
    ELSE IF p = Inf THEN (IF q = Inf THEN NaN ELSE Inf)
    ELSE IF q = Inf THEN Zero
    ELSE Frac(p[1] * q[2], p[2] * q[1])

RECURSIVE FSum(_)
FSum(s) == IF s = <<>> THEN Zero ELSE FAdd(Head(s), FSum(Tail(s)))

\* float(n) of an int n >= 0
ToFloat(n) == <<n, 1>>

RECURSIVE IntSum(_)
IntSum(s) == IF s = <<>> THEN 0 ELSE Head(s) + IntSum(Tail(s))

Max(a, b) == IF a >= b THEN a ELSE b

(***************************************************************************)
(* Sequences (Python lists and numpy arrays).                              *)
(***************************************************************************)
Range(s) == {s[i] : i \in 1..Len(s)}

\* x in lst
Contains(s, x) == \E i \in 1..Len(s) : s[i] = x

\* all sequences over S of length at most n
SeqsUpTo(S, n) == UNION {[1..k -> S] : k \in 0..n}

NoDup(s) == \A i, j \in 1..Len(s) : i # j => s[i] # s[j]

(***************************************************************************)
(* Words.  str.startswith('<') is decided on the words of the model.       *)
(***************************************************************************)
SOS == "<s>"
EOS == "</s>"
UNK == "<unk>"
Sentinels == {SOS, EOS, UNK}

StartsWithLt(w) == w \in {"<s>", "</s>", "<unk>", "<eps>"}

(***************************************************************************)
(* WordClass (theanolm/vocabulary/wordclass.py): a class ID and the        *)
(* members <<word_id, prob>> in insertion order.  Word IDs are 0-based as  *)
(* in the program; the sequences that hold them are 1-based.               *)
(***************************************************************************)
WordClass(class_id, word_id, prob) ==
    [id |-> class_id, members |-> << <<word_id, prob>> >>]

\* add(): the word IDs added in this model are new to the class
WcAdd(wc, word_id, prob) ==
    [wc EXCEPT !.members = Append(@, <<word_id, prob>>)]

\* get_prob() fails with UnknownMemberError when this is false
WcHas(wc, word_id) == \E k \in 1..Len(wc.members) : wc.members[k][1] = word_id

WcGetProb(wc, word_id) ==
    LET i == CHOOSE k \in 1..Len(wc.members) : wc.members[k][1] = word_id
    IN wc.members[i][2]

WcLen(wc) == Len(wc.members)

WcProbs(wc) == [i \in 1..Len(wc.members) |-> wc.members[i][2]]

WcTotal(wc) == FSum(WcProbs(wc))

WcNormalizeProbs(wc) ==
    LET total == WcTotal(wc)
    IN IF total = Zero
       THEN [wc EXCEPT !.members =
                [i \in 1..Len(@) |-> <<@[i][1], Frac(1, Len(wc.members))>>]]
       ELSE [wc EXCEPT !.members =
                [i \in 1..Len(@) |-> <<@[i][1], FDiv(@[i][2], total)>>]]

(***************************************************************************)
(* Vocabulary.__init__                                                     *)
(***************************************************************************)
\* the three lists the constructor receives and appends to in place
Lists(id_to_word, word_id_to_class_id, word_classes) ==
    [id_to_word |-> id_to_word,
     word_id_to_class_id |-> word_id_to_class_id,
     word_classes |-> word_classes]

EmptyLists == Lists(<<>>, <<>>, <<>>)

\* "if tok not in id_to_word: ..." (one of the three blocks)
AddSpecial(l, tok) ==
    IF Contains(l.id_to_word, tok) THEN l
    ELSE LET word_id == Len(l.id_to_word)
             class_id == Len(l.word_classes)
         IN Lists(Append(l.id_to_word, tok),
                  Append(l.word_id_to_class_id, class_id),
                  Append(l.word_classes, WordClass(class_id, word_id, One)))

\* a constructor that forgets the '<unk>' block
AddSpecials_NoUnk(l) == AddSpecial(AddSpecial(l, SOS), EOS)

AddSpecials(l) == AddSpecial(AddSpecial(AddSpecial(l, SOS), EOS), UNK)

\* oos_words: [has |-> FALSE] stands for None
NoOos == [has |-> FALSE, words |-> <<>>]
SomeOos(ws) == [has |-> TRUE, words |-> ws]

\* a loop that appends every word of oos_words
AppendOos_All(id_to_word, ws) == id_to_word \o ws

RECURSIVE AppendOos(_, _)
AppendOos(id_to_word, ws) ==
    IF ws = <<>> THEN id_to_word
    ELSE AppendOos(IF Contains(id_to_word, Head(ws)) THEN id_to_word
                   ELSE Append(id_to_word, Head(ws)),
                   Tail(ws))

\* a backward scan that passes every class of one word, whatever the word
RECURSIVE ScanNormal_AnySingleton(_, _, _)
ScanNormal_AnySingleton(id_to_word, word_classes, index) ==
    IF index >= 0 /\ WcLen(word_classes[index + 1]) = 1
    THEN ScanNormal_AnySingleton(id_to_word, word_classes, index - 1)
    ELSE index

\* the backward scan; index is the 0-based class index of the program
RECURSIVE ScanNormal(_, _, _)
ScanNormal(id_to_word, word_classes, index) ==
    IF index >= 0
       /\ WcLen(word_classes[index + 1]) = 1
       /\ StartsWithLt(id_to_word[word_classes[index + 1].members[1][1] + 1])
    THEN ScanNormal(id_to_word, word_classes, index - 1)
    ELSE index

NumNormalClasses(id_to_word, word_classes) ==
    ScanNormal(id_to_word, word_classes, Len(word_classes) - 1) + 1

\* a constructor without the normalize_probs() loop
NormalizeAll_Skipped(word_classes) == word_classes

NormalizeAll(word_classes) ==
    [c \in 1..Len(word_classes) |-> WcNormalizeProbs(word_classes[c])]

\* {word: word_id for word_id, word in enumerate(id_to_word)}: the last wins
WordToId(id_to_word) ==
    [w \in Range(id_to_word) |->
        (CHOOSE i \in 1..Len(id_to_word) :
            /\ id_to_word[i] = w
            /\ \A j \in 1..Len(id_to_word) : id_to_word[j] = w => j <= i) - 1]

NoUnigram == [has |-> FALSE, probs |-> <<>>]

NoVoc ==
    [id_to_word |-> <<>>, word_id_to_class_id |-> <<>>, word_classes |-> <<>>,
     num_normal_classes |-> 0, unigram_probs |-> NoUnigram]

\* a constructor that appends oos_words before it adds the special tokens
Vocabulary_OosFirst(id_to_word, word_id_to_class_id, word_classes, oos_words) ==
    LET given == Lists(id_to_word, word_id_to_class_id, word_classes)
    IN IF Len(id_to_word) # Len(word_id_to_class_id)
       THEN [ok |-> FALSE, err |-> "ValueError", lists |-> given, voc |-> NoVoc]
       ELSE LET l1 == [given EXCEPT !.id_to_word =
                          IF oos_words.has THEN AppendOos(@, oos_words.words) ELSE @]
                l2 == AddSpecials(l1)
                l3 == [l2 EXCEPT !.word_classes = NormalizeAll(@)]
            IN [ok |-> TRUE, err |-> "", lists |-> l3,
                voc |-> [id_to_word |-> l3.id_to_word,
                         word_id_to_class_id |-> l3.word_id_to_class_id,
                         word_classes |-> l3.word_classes,
                         num_normal_classes |->
                             NumNormalClasses(l2.id_to_word, l2.word_classes),
                         unigram_probs |-> NoUnigram]]

\* a constructor that compares the lengths after adding the special tokens
Vocabulary_LateCheck(id_to_word, word_id_to_class_id, word_classes, oos_words) ==
    LET l1 == AddSpecials(Lists(id_to_word, word_id_to_class_id, word_classes))
    IN [ok |-> FALSE, err |-> "ValueError", lists |-> l1, voc |-> NoVoc]

\* result of a constructor call: the object (when ok), the error raised
\* (otherwise) and the caller's three lists as the call leaves them
Vocabulary(id_to_word, word_id_to_class_id, word_classes, oos_words) ==
    LET given == Lists(id_to_word, word_id_to_class_id, word_classes)
    IN IF Len(id_to_word) # Len(word_id_to_class_id)
       THEN [ok |-> FALSE, err |-> "ValueError", lists |-> given, voc |-> NoVoc]
       ELSE LET l1 == AddSpecials(given)
                l2 == [l1 EXCEPT !.id_to_word =
                          IF oos_words.has THEN AppendOos(@, oos_words.words) ELSE @]
                l3 == [l2 EXCEPT !.word_classes = NormalizeAll(@)]
            IN [ok |-> TRUE, err |-> "", lists |-> l3,
                voc |-> [id_to_word |-> l3.id_to_word,
                         word_id_to_class_id |-> l3.word_id_to_class_id,
                         word_classes |-> l3.word_classes,
                         num_normal_classes |->
                             NumNormalClasses(l2.id_to_word, l2.word_classes),
                         unigram_probs |-> NoUnigram]]

(***************************************************************************)
(* Vocabulary.from_file.  A line is the sequence of its whitespace-        *)
(* separated fields (line.strip().split()); a blank line has none.         *)
(***************************************************************************)
\* int(s) and float(s) raise ValueError outside these sets
IsInt(s) == s \in {"0", "1"}
IntOf(s) == IF s = "0" THEN 0 ELSE 1
IsFloat(s) == s \in {"0", "1", "0.5"}
FloatOf(s) == IF s = "0" THEN Zero ELSE IF s = "1" THEN One ELSE <<1, 2>>

\* file_id: None, an int ("classes") or a str ("srilm-classes")
FileIdNone == [kind |-> "none", i |-> 0, s |-> ""]
FileIdInt(n) == [kind |-> "int", i |-> n, s |-> ""]
FileIdStr(t) == [kind |-> "str", i |-> 0, s |-> t]

\* file_id_to_class_id is a sequence of <<file_id, class_id>> pairs
MapHas(m, k) == \E i \in 1..Len(m) : m[i][1] = k
MapGet(m, k) == m[CHOOSE i \in 1..Len(m) : m[i][1] = k][2]

FileLoopInit ==
    [err |-> "", words |-> {}, lists |-> EmptyLists, file_id_to_class_id |-> <<>>]

\* a loop body that never finds the file ID in file_id_to_class_id
FileAddWord_NewClass(st, word, file_id, prob) ==
    IF word \in st.words THEN [st EXCEPT !.err = "InputError"]
    ELSE LET word_id == Len(st.lists.id_to_word)
             class_id == Len(st.lists.word_classes)
         IN [st EXCEPT
                !.words = @ \cup {word},
                !.lists = Lists(Append(@.id_to_word, word),
                                Append(@.word_id_to_class_id, class_id),
                                Append(@.word_classes,
                                       WordClass(class_id, word_id, prob)))]

\* the body of "for line in input_file" once the line's fields are parsed
FileAddWord(st, word, file_id, prob) ==
    IF word \in st.words THEN [st EXCEPT !.err = "InputError"]
    ELSE LET word_id == Len(st.lists.id_to_word)
             known == MapHas(st.file_id_to_class_id, file_id)
             class_id == IF known THEN MapGet(st.file_id_to_class_id, file_id)
                         ELSE Len(st.lists.word_classes)
             classes == IF known
                        THEN [st.lists.word_classes EXCEPT
                                 ![class_id + 1] = WcAdd(@, word_id, prob)]
                        ELSE Append(st.lists.word_classes,
                                    WordClass(class_id, word_id, prob))
         IN [err |-> "",
             words |-> st.words \cup {word},
             lists |-> Lists(Append(st.lists.id_to_word, word),
                             Append(st.lists.word_id_to_class_id, class_id),
                             classes),
             file_id_to_class_id |->
                 IF ~known /\ file_id # FileIdNone
                 THEN Append(st.file_id_to_class_id, <<file_id, class_id>>)
                 ELSE st.file_id_to_class_id]

FileLine(st, fields, input_format) ==
    IF fields = <<>> THEN st
    ELSE IF input_format = "words" /\ Len(fields) = 1
    THEN FileAddWord(st, fields[1], FileIdNone, One)
    ELSE IF input_format = "classes" /\ Len(fields) = 2
    THEN IF IsInt(fields[2])
         THEN FileAddWord(st, fields[1], FileIdInt(IntOf(fields[2])), One)
         ELSE [st EXCEPT !.err = "ValueError"]
    ELSE IF input_format = "srilm-classes" /\ Len(fields) = 3
    THEN IF IsFloat(fields[2])
         THEN FileAddWord(st, fields[3], FileIdStr(fields[1]), FloatOf(fields[2]))
         ELSE [st EXCEPT !.err = "ValueError"]
    ELSE [st EXCEPT !.err = "InputError"]

RECURSIVE FileLoop(_, _, _)
FileLoop(st, lines, input_format) ==
    IF lines = <<>> \/ st.err # "" THEN st
    ELSE FileLoop(FileLine(st, Head(lines), input_format), Tail(lines), input_format)

from_file(input_file, input_format, oos_words) ==
    LET st == FileLoop(FileLoopInit, input_file, input_format)
    IN IF st.err # ""
       THEN [ok |-> FALSE, err |-> st.err, lists |-> st.lists, voc |-> NoVoc]
       ELSE Vocabulary(st.lists.id_to_word, st.lists.word_id_to_class_id,
                       st.lists.word_classes, oos_words)

(***************************************************************************)
(* Vocabulary.from_word_counts.  A dict is the sequence of its items in    *)
(* iteration order, <<word, count>>, with distinct keys.                   *)
(***************************************************************************)
DictGet(d, k) == d[CHOOSE i \in 1..Len(d) : d[i][1] = k][2]

\* del d[k]
RECURSIVE DictDel(_, _)
DictDel(d, k) ==
    IF d = <<>> THEN <<>>
    ELSE IF Head(d)[1] = k THEN Tail(d)
    ELSE <<Head(d)>> \o DictDel(Tail(d), k)

\* sorted(items, key=lambda x: x[1]): stable, ascending
RECURSIVE SortedInsert(_, _)
SortedInsert(sorted, x) ==
    IF sorted = <<>> THEN <<x>>
    ELSE IF Head(sorted)[2] <= x[2] THEN <<Head(sorted)>> \o SortedInsert(Tail(sorted), x)
    ELSE <<x>> \o sorted

\* a builder that takes the items in the order of the dict
SortedByCount_Unsorted(d) == d

RECURSIVE SortedByCount(_)
SortedByCount(d) ==
    IF d = <<>> THEN <<>>
    ELSE SortedInsert(SortedByCount(SubSeq(d, 1, Len(d) - 1)), d[Len(d)])

\* num_classes: [has |-> FALSE] stands for None
NoneClasses == [has |-> FALSE, n |-> 0]
NumClasses(n) == [has |-> TRUE, n |-> n]

CountLoopInit == [err |-> "", lists |-> EmptyLists, class_id |-> 0]

\* a loop body that gives a word the ID of an open class without adding it
\* to the class
CountWord_NoMember(st, word, num_classes) ==
    LET word_id == Len(st.lists.id_to_word)
        classes == IF st.class_id < Len(st.lists.word_classes)
                   THEN st.lists.word_classes
                   ELSE Append(st.lists.word_classes,
                               WordClass(st.class_id, word_id, One))
        lists == Lists(Append(st.lists.id_to_word, word),
                       Append(st.lists.word_id_to_class_id, st.class_id),
                       classes)
    IN IF num_classes = 0
       THEN [err |-> "ZeroDivisionError", lists |-> lists, class_id |-> st.class_id]
       ELSE [err |-> "", lists |-> lists,
             class_id |-> (st.class_id + 1) % num_classes]

CountWord(st, word, num_classes) ==
    LET word_id == Len(st.lists.id_to_word)
        classes == IF st.class_id < Len(st.lists.word_classes)
                   THEN [st.lists.word_classes EXCEPT
                            ![st.class_id + 1] = WcAdd(@, word_id, One)]
                   ELSE Append(st.lists.word_classes,
                               WordClass(st.class_id, word_id, One))
        lists == Lists(Append(st.lists.id_to_word, word),
                       Append(st.lists.word_id_to_class_id, st.class_id),
                       classes)
    IN IF num_classes = 0
       THEN [err |-> "ZeroDivisionError", lists |-> lists, class_id |-> st.class_id]
       ELSE [err |-> "", lists |-> lists,
             class_id |-> (st.class_id + 1) % num_classes]

RECURSIVE CountLoop(_, _, _)
CountLoop(st, items, num_classes) ==
    IF items = <<>> \/ st.err # "" THEN st
    ELSE CountLoop(CountWord(st, Head(items)[1], num_classes), Tail(items), num_classes)

StripSpecials(word_counts) == DictDel(DictDel(DictDel(word_counts, SOS), EOS), UNK)

from_word_counts(word_counts, num_classes) ==
    LET counts == StripSpecials(word_counts)
        n == IF num_classes.has THEN num_classes.n ELSE Len(counts)
        st == CountLoop(CountLoopInit, SortedByCount(counts), n)
    IN IF st.err # ""
       THEN [ok |-> FALSE, err |-> st.err, lists |-> st.lists, voc |-> NoVoc]
       ELSE Vocabulary(st.lists.id_to_word, st.lists.word_id_to_class_id,
                       st.lists.word_classes, NoOos)

(***************************************************************************)
(* Queries.                                                                *)
(***************************************************************************)
num_words(v) == Len(v.id_to_word)
num_shortlist_words(v) == Len(v.word_id_to_class_id)
num_classes(v) == Len(v.word_classes)
\* a comparison that takes the first word after the shortlist with it
in_shortlist_LE(v, word_id) == word_id <= Len(v.word_id_to_class_id)

in_shortlist(v, word_id) == word_id < Len(v.word_id_to_class_id)
has_unigram_probs(v) == v.unigram_probs.has

\* a translation that leaves the zero of numpy.zeros for an unknown word
words_to_ids_ZeroForUnknown(v, words) ==
    LET word_to_id == WordToId(v.id_to_word)
    IN [i \in 1..Len(words) |->
           IF words[i] \in DOMAIN word_to_id THEN word_to_id[words[i]] ELSE 0]

words_to_ids(v, words) ==
    LET word_to_id == WordToId(v.id_to_word)
        unk_id == word_to_id[UNK]
    IN [i \in 1..Len(words) |->
           IF words[i] \in DOMAIN word_to_id THEN word_to_id[words[i]] ELSE unk_id]

get_word_prob(v, word_id) ==
    LET class_id == v.word_id_to_class_id[word_id + 1]
    IN WcGetProb(v.word_classes[class_id + 1], word_id)

\* word_ids[word_ids >= num_shortlist_words()] = unk_id
ReplaceOos(v, word_ids) ==
    LET unk_id == WordToId(v.id_to_word)[UNK]
    IN [i \in 1..Len(word_ids) |->
           IF word_ids[i] >= num_shortlist_words(v) THEN unk_id ELSE word_ids[i]]

\* a method that substitutes in the caller's array, without numpy.copy
CallerArrayAfter_InPlace(v, word_ids) == ReplaceOos(v, word_ids)

\* the array the caller passed, as the call leaves it: the method works on
\* numpy.copy(word_ids)
CallerArrayAfter(v, word_ids) == word_ids

get_class_memberships(v, word_ids) ==
    LET ids == ReplaceOos(v, word_ids)
        class_ids == [i \in 1..Len(ids) |-> v.word_id_to_class_id[ids[i] + 1]]
    IN [class_ids |-> class_ids,
        probs |-> [i \in 1..Len(ids) |->
                      WcGetProb(v.word_classes[class_ids[i] + 1], ids[i])],
        word_ids |-> CallerArrayAfter(v, word_ids)]

\* The result of get_oos_logprobs() is numpy.log of these factors; log is
\* one-to-one on [0, inf], so the array is represented by the factors.
OosFactors(v) ==
    LET shortlist_size == num_shortlist_words(v)
        n == num_words(v)
        oos_probs == [i \in 1..n |->
                         IF i <= shortlist_size THEN One ELSE v.unigram_probs.probs[i]]
        total_oos_prob == FSum(SubSeq(oos_probs, shortlist_size + 1, n))
    IN [i \in 1..n |->
           IF i <= shortlist_size THEN oos_probs[i]
           ELSE FDiv(oos_probs[i], total_oos_prob)]

get_oos_logprobs(v) == [i \in 1..num_words(v) |-> [log_of |-> OosFactors(v)[i]]]
Exp(x) == x.log_of

(***************************************************************************)
(* Vocabulary.compute_probs                                                *)
(***************************************************************************)
\* the loop filling counts: a later item of the dict overwrites an earlier one
RECURSIVE FillCounts(_, _, _)
FillCounts(counts, items, word_to_id) ==
    IF items = <<>> THEN counts
    ELSE LET word == Head(items)[1]
             count == Head(items)[2]
         IN FillCounts(IF word \in DOMAIN word_to_id /\ word_to_id[word] < Len(counts)
                       THEN [counts EXCEPT ![word_to_id[word] + 1] = count]
                       ELSE counts,
                       Tail(items), word_to_id)

UnigramProbs(counts) ==
    [i \in 1..Len(counts) |-> FDiv(ToFloat(counts[i]), ToFloat(IntSum(counts)))]

\* a loop body that divides by the class total whatever it is
ClassProbsFromCounts_NoFallback(wc, counts) ==
    LET cls_total == IntSum([i \in 1..WcLen(wc) |-> counts[wc.members[i][1] + 1]])
    IN [wc EXCEPT !.members =
           [i \in 1..Len(@) |-> <<@[i][1], Frac(counts[@[i][1] + 1], cls_total)>>]]

\* the body of "for cls in self._word_classes"
ClassProbsFromCounts(wc, counts) ==
    LET cls_total == IntSum([i \in 1..WcLen(wc) |-> counts[wc.members[i][1] + 1]])
    IN IF cls_total > 0
       THEN [wc EXCEPT !.members =
                [i \in 1..Len(@) |->
                    <<@[i][1], Frac(counts[@[i][1] + 1], cls_total)>>]]
       ELSE [wc EXCEPT !.members =
                [i \in 1..Len(@) |-> <<@[i][1], Frac(1, WcLen(wc))>>]]

\* a compute_probs that returns before it stores the unigram probabilities
compute_probs_LateUnigram(v, word_counts, update_class_probs) ==
    LET word_to_id == WordToId(v.id_to_word)
        counts == FillCounts([i \in 1..num_words(v) |-> 0], word_counts, word_to_id)
        v1 == [v EXCEPT !.unigram_probs = [has |-> TRUE, probs |-> UnigramProbs(counts)]]
        c1 == [counts EXCEPT ![word_to_id[SOS] + 1] = Max(@, 1)]
        c2 == [c1 EXCEPT ![word_to_id[EOS] + 1] = Max(@, 1)]
        c3 == [c2 EXCEPT ![word_to_id[UNK] + 1] = Max(@, 1)]
    IN IF ~update_class_probs THEN v
       ELSE [v1 EXCEPT !.word_classes =
                [c \in 1..Len(@) |-> ClassProbsFromCounts(@[c], c3)]]

compute_probs(v, word_counts, update_class_probs) ==
    LET word_to_id == WordToId(v.id_to_word)
        counts == FillCounts([i \in 1..num_words(v) |-> 0], word_counts, word_to_id)
        v1 == [v EXCEPT !.unigram_probs = [has |-> TRUE, probs |-> UnigramProbs(counts)]]
        sos_id == word_to_id[SOS]
        eos_id == word_to_id[EOS]
        unk_id == word_to_id[UNK]
        c1 == [counts EXCEPT ![sos_id + 1] = Max(@, 1)]
        c2 == [c1 EXCEPT ![eos_id + 1] = Max(@, 1)]
        c3 == [c2 EXCEPT ![unk_id + 1] = Max(@, 1)]
    IN IF ~update_class_probs THEN v1
       ELSE [v1 EXCEPT !.word_classes =
                [c \in 1..Len(@) |-> ClassProbsFromCounts(@[c], c3)]]

(***************************************************************************)
(* The network state (an HDF5 file): group 'vocabulary' and its datasets.  *)
(* The file has no dataset named 'words', 'classes', 'probs' or            *)
(* 'unigram_probs' outside the group.                                      *)
(***************************************************************************)
NoStrs == [has |-> FALSE, v |-> <<>>]
NoInts == [has |-> FALSE, v |-> <<>>]
NoFloats == [has |-> FALSE, v |-> <<>>]
Dataset(x) == [has |-> TRUE, v |-> x]

EmptyStore ==
    [vocabulary |-> FALSE, words |-> NoStrs, classes |-> NoInts,
     probs |-> NoFloats, unigram_probs |-> NoFloats]

\* state[name] for a dataset name: the lookup is made in the file, not in
\* the group, and finds nothing
TopLevelHas(state, name) == FALSE

\* "if name in h5_vocabulary: state[name][:] = data / else: create_dataset"
PutDataset(r, name, data) ==
    IF r.err # "" THEN r
    ELSE IF r.state[name].has
    THEN IF TopLevelHas(r.state, name)
         THEN [r EXCEPT !.state[name] = Dataset(data)]
         ELSE [r EXCEPT !.err = "KeyError"]
    ELSE [r EXCEPT !.state[name] = Dataset(data)]

MemberProbs(v) ==
    [i \in 1..num_shortlist_words(v) |-> get_word_prob(v, i - 1)]

\* every get_prob(word_id) of the list comprehension finds its word
MemberProbsFound(v) ==
    \A i \in 1..num_shortlist_words(v) :
        WcHas(v.word_classes[v.word_id_to_class_id[i] + 1], i - 1)

get_state(v, state) ==
    LET r0 == [state |-> [state EXCEPT !.vocabulary = TRUE], err |-> ""]
        r1 == PutDataset(r0, "words", v.id_to_word)
        r2 == PutDataset(r1, "classes", v.word_id_to_class_id)
        r3 == IF r2.err # "" THEN r2
              ELSE IF ~MemberProbsFound(v) THEN [r2 EXCEPT !.err = "UnknownMemberError"]
              ELSE PutDataset(r2, "probs", MemberProbs(v))
    IN IF r3.err = "" /\ has_unigram_probs(v)
       THEN PutDataset(r3, "unigram_probs", v.unigram_probs.probs)
       ELSE r3

(***************************************************************************)
(* Vocabulary.from_state                                                   *)
(***************************************************************************)
SeqMax(s) == CHOOSE m \in Range(s) : \A x \in Range(s) : x <= m

\* word_classes as the loop over h5_probs leaves it; a class without a
\* word stays None and is left out here (the stores of the model have none)
ClassesFromState(word_id_to_class_id, h5_probs) ==
    LET num == SeqMax(word_id_to_class_id) + 1
        RECURSIVE Members(_, _)
        Members(c, i) ==
            IF i > Len(h5_probs) THEN <<>>
            ELSE (IF word_id_to_class_id[i] = c THEN << <<i - 1, h5_probs[i]>> >> ELSE <<>>)
                 \o Members(c, i + 1)
    IN [c \in 1..num |-> [id |-> c - 1, members |-> Members(c - 1, 1)]]

Failed(e) == [ok |-> FALSE, err |-> e, lists |-> EmptyLists, voc |-> NoVoc]

\* a from_state without the check for 'probs': the read of the dataset fails
from_state_KeyError(state) ==
    IF ~state.vocabulary THEN Failed("IncompatibleStateError: vocabulary")
    ELSE IF ~state.words.has THEN Failed("IncompatibleStateError: words")
    ELSE IF ~state.classes.has THEN Failed("IncompatibleStateError: classes")
    ELSE IF ~state.probs.has THEN Failed("KeyError")
    ELSE LET word_classes == ClassesFromState(state.classes.v, state.probs.v)
             result == Vocabulary(state.words.v, state.classes.v, word_classes, NoOos)
         IN IF result.ok /\ state.unigram_probs.has
            THEN [result EXCEPT !.voc.unigram_probs =
                     [has |-> TRUE, probs |-> state.unigram_probs.v]]
            ELSE result

from_state(state) ==
    IF ~state.vocabulary THEN Failed("IncompatibleStateError: vocabulary")
    ELSE IF ~state.words.has THEN Failed("IncompatibleStateError: words")
    ELSE IF ~state.classes.has THEN Failed("IncompatibleStateError: classes")
    ELSE IF ~state.probs.has THEN Failed("IncompatibleStateError: probs")
    ELSE LET word_classes == ClassesFromState(state.classes.v, state.probs.v)
             result == Vocabulary(state.words.v, state.classes.v, word_classes, NoOos)
         IN IF result.ok /\ state.unigram_probs.has
            THEN [result EXCEPT !.voc.unigram_probs =
                     [has |-> TRUE, probs |-> state.unigram_probs.v]]
            ELSE result

(***************************************************************************)
(* The state machine: one Vocabulary is constructed, then queried,         *)
(* recomputed and persisted; from_state builds a second object from the    *)
(* network state.                                                          *)
(***************************************************************************)
VARIABLES
    pc,       \* "init": no constructor called; "ready": voc exists; "failed"
    call,     \* the construction call and its arguments
    caller,   \* the caller's three lists after a raw-list constructor call
    err,      \* the error the construction raised, "" if none
    voc,      \* the Vocabulary object
    state,    \* the network state file
    saved,    \* the Vocabulary as it was when get_state filled an empty state
    loaded,   \* the outcome of the last from_state call
    ret       \* the last query or get_state call: arguments and result

vars == <<pc, call, caller, err, voc, state, saved, loaded, ret>>

NoCall ==
    [op |-> "none", given |-> EmptyLists, oos_words |-> NoOos,
     input_file |-> <<>>, input_format |-> "",
     word_counts |-> <<>>, num_classes |-> NoneClasses]

NoRet ==
    [op |-> "none", err |-> "", words |-> <<>>, word_ids |-> <<>>,
     word_ids_after |-> <<>>, ids |-> <<>>, class_ids |-> <<>>,
     probs |-> <<>>, logprobs |-> <<>>,
     word_counts |-> <<>>, update_class_probs |-> FALSE,
     classes_before |-> <<>>, state_before |-> EmptyStore, voc_before |-> NoVoc,
     word_id |-> 0, answer |-> FALSE]

NoSaved == [has |-> FALSE, voc |-> NoVoc]
NotLoaded == [done |-> FALSE, ok |-> FALSE, err |-> "", voc |-> NoVoc, from |-> EmptyStore]

Init ==
    /\ pc = "init"
    /\ call = NoCall
    /\ caller = EmptyLists
    /\ err = ""
    /\ voc = NoVoc
    /\ state = EmptyStore
    /\ saved = NoSaved
    /\ loaded = NotLoaded
    /\ ret = NoRet

\* a constructor or builder returned r
Built(r) ==
    /\ pc' = IF r.ok THEN "ready" ELSE "failed"
    /\ err' = r.err
    /\ voc' = r.voc
    /\ UNCHANGED <<state, saved, loaded, ret>>

\* Vocabulary(id_to_word, word_id_to_class_id, word_classes, oos_words)
Construct(given, oos_words) ==
    /\ pc = "init"
    /\ LET r == Vocabulary(given.id_to_word, given.word_id_to_class_id,
                           given.word_classes, oos_words)
       IN /\ call' = [NoCall EXCEPT !.op = "Vocabulary", !.given = given,
                                    !.oos_words = oos_words]
          /\ caller' = r.lists
          /\ Built(r)

FromFile(input_file, input_format, oos_words) ==
    /\ pc = "init"
    /\ call' = [NoCall EXCEPT !.op = "from_file", !.input_file = input_file,
                              !.input_format = input_format,
                              !.oos_words = oos_words]
    /\ caller' = EmptyLists
    /\ Built(from_file(input_file, input_format, oos_words))

FromWordCounts(word_counts, n) ==
    /\ pc = "init"
    /\ call' = [NoCall EXCEPT !.op = "from_word_counts",
                              !.word_counts = word_counts, !.num_classes = n]
    /\ caller' = EmptyLists
    /\ Built(from_word_counts(word_counts, n))

ComputeProbs(word_counts, update_class_probs) ==
    /\ pc = "ready"
    /\ voc' = compute_probs(voc, word_counts, update_class_probs)
    /\ ret' = [NoRet EXCEPT !.op = "compute_probs",
                            !.word_counts = word_counts,
                            !.update_class_probs = update_class_probs,
                            !.classes_before = voc.word_classes]
    /\ UNCHANGED <<pc, call, caller, err, state, saved, loaded>>

GetState ==
    /\ pc = "ready"
    /\ LET r == get_state(voc, state)
       IN /\ state' = r.state
          /\ ret' = [NoRet EXCEPT !.op = "get_state", !.err = r.err,
                                  !.state_before = state, !.voc_before = voc]
          /\ saved' = IF state = EmptyStore /\ r.err = ""
                      THEN [has |-> TRUE, voc |-> voc]
                      ELSE saved
    /\ UNCHANGED <<pc, call, caller, err, voc, loaded>>

FromState ==
    /\ LET r == from_state(state)
       IN loaded' = [done |-> TRUE, ok |-> r.ok, err |-> r.err, voc |-> r.voc,
                     from |-> state]
    /\ loaded' # loaded
    /\ UNCHANGED <<pc, call, caller, err, voc, state, saved, ret>>

WordsToIds(words) ==
    /\ pc = "ready"
    /\ ret' = [NoRet EXCEPT !.op = "words_to_ids", !.words = words,
                            !.ids = words_to_ids(voc, words)]
    /\ UNCHANGED <<pc, call, caller, err, voc, state, saved, loaded>>

GetClassMemberships(word_ids) ==
    /\ pc = "ready"
    /\ LET r == get_class_memberships(voc, word_ids)
       IN ret' = [NoRet EXCEPT !.op = "get_class_memberships",
                               !.word_ids = word_ids,
                               !.word_ids_after = r.word_ids,
                               !.class_ids = r.class_ids,
                               !.probs = r.probs]
    /\ UNCHANGED <<pc, call, caller, err, voc, state, saved, loaded>>

InShortlist(word_id) ==
    /\ pc = "ready"
    /\ ret' = [NoRet EXCEPT !.op = "in_shortlist", !.word_id = word_id,
                            !.answer = in_shortlist(voc, word_id)]
    /\ UNCHANGED <<pc, call, caller, err, voc, state, saved, loaded>>

\* the caller checks has_unigram_probs() first
GetOosLogprobs ==
    /\ pc = "ready"
    /\ has_unigram_probs(voc)
    /\ ret' = [NoRet EXCEPT !.op = "get_oos_logprobs",
                            !.logprobs = get_oos_logprobs(voc)]
    /\ UNCHANGED <<pc, call, caller, err, voc, state, saved, loaded>>

(***************************************************************************)
(* Inputs.                                                                 *)
(***************************************************************************)
\* lists for the raw-list constructor: words, one class ID per entry of
\* word_id_to_class_id (the IDs used are 0..k-1) and the classes built from
\* them; the two lists may differ in length
RawWords == {"a", "<eps>", "<unk>"}
RawProbs == {Zero, One}

ValidClassIds(w2c) ==
    /\ \A i \in 1..Len(w2c) : \A c \in 0..(w2c[i] - 1) : Contains(w2c, c)

RawClasses(w2c, probs) ==
    IF w2c = <<>> THEN <<>> ELSE ClassesFromState(w2c, probs)

RawInputs ==
    {Lists(ws, w2c, RawClasses(w2c, ps)) :
        <<ws, w2c, ps>> \in
            {x \in SeqsUpTo(RawWords, MaxRaw) \X SeqsUpTo(0..(MaxRaw - 1), MaxRaw)
                        \X SeqsUpTo(RawProbs, MaxRaw) :
                /\ NoDup(x[1])
                /\ ValidClassIds(x[2])
                /\ Len(x[3]) = Len(x[2])}}

\* lists whose last word has the ID of a class among word_id_to_class_id
\* but was never added to the class
LooseRawInputs ==
    {LET n == Len(l.word_id_to_class_id)
     IN Lists(l.id_to_word, l.word_id_to_class_id,
              RawClasses(SubSeq(l.word_id_to_class_id, 1, n - 1),
                         [i \in 1..(n - 1) |-> One])) :
        l \in {x \in RawInputs :
                  /\ Len(x.id_to_word) = Len(x.word_id_to_class_id)
                  /\ Len(x.word_id_to_class_id) >= 2
                  /\ Contains(SubSeq(x.word_id_to_class_id, 1,
                                     Len(x.word_id_to_class_id) - 1),
                              x.word_id_to_class_id[Len(x.word_id_to_class_id)])}}

OosChoices == {NoOos} \cup {SomeOos(ws) : ws \in SeqsUpTo({"zzz", "a", "<unk>"}, MaxOos)}
SmallOosChoices ==
    {NoOos, SomeOos(<<"zzz">>), SomeOos(<<"zzz", "yyy">>), SomeOos(<<"<unk>", "zzz">>)}

Formats == {"words", "classes", "srilm-classes"}

FileLines ==
    {<<>>, <<"the">>, <<"<s>">>,
     <<"the", "0">>, <<"a", "0">>, <<"dog", "1">>, <<"a", "x">>, <<"<s>", "0">>,
     <<"A", "0", "the">>, <<"A", "0", "a">>, <<"B", "0.5", "a">>,
     <<"A", "0.5", "dog">>}

SmallFileLines ==
    {<<"the">>, <<"the", "0">>, <<"a", "0">>, <<"<unk>", "0">>, <<"A", "0", "a">>}

CountWords == {"cat", "dog", "bird", "<unk>"}
CountValues == {1, 3, 5}
WordCounts(W, C, n) == {d \in SeqsUpTo(W \X C, n) : NoDup([i \in 1..Len(d) |-> d[i][1]])}
ClassCounts == {NoneClasses} \cup {NumClasses(n) : n \in 0..MaxCounts}

\* word counts handed to compute_probs
CorpusCounts ==
    {<< <<"the", 2>>, <<"cat", 1>> >>,
     << <<"<unk>", 2>>, <<"yyy", 3>>, <<"zzz", 1>> >>,
     << <<"zzz", 0>>, <<"the", 1>> >>}

QueryWords == {"the", "zzz", "qqq", "<unk>"}

\* word IDs at the ends of the shortlist and of the vocabulary
QueryIds(v) ==
    {0, num_shortlist_words(v) - 1, num_shortlist_words(v), num_words(v) - 1}
        \cap 0..(num_words(v) - 1)

RawCalls == RawInputs \X {NoOos, SomeOos(<<"zzz">>)}
RawOosCalls ==
    {l \in RawInputs : Len(l.id_to_word) + Len(l.word_id_to_class_id) <= MaxSmallRaw}
        \X OosChoices
SmallRawCalls ==
    {l \in RawInputs : Len(l.id_to_word) + Len(l.word_id_to_class_id) <= MaxSmallRaw}
        \X {NoOos}
FileCalls == SeqsUpTo(FileLines, MaxLines) \X Formats \X {NoOos}
FileOosCalls == SeqsUpTo(FileLines, MaxSmallLines) \X Formats \X {SomeOos(<<"zzz">>)}
WriteCalls == (RawInputs \cup LooseRawInputs) \X {NoOos}
SmallFileCalls == SeqsUpTo(SmallFileLines, MaxSmallLines) \X Formats \X SmallOosChoices
CountCalls == WordCounts(CountWords, CountValues, MaxCounts) \X ClassCounts
SmallCountCalls ==
    WordCounts({"cat", "dog"}, {1}, MaxSmallCounts)
        \X {NoneClasses, NumClasses(0), NumClasses(1)}
QueryLists == SeqsUpTo(QueryWords, MaxQuery)

\* network states handed to from_state: the arrays of a vocabulary of n words
\* and the special tokens, each in its own class, with or without an
\* out-of-shortlist word; the membership probabilities are any values, and
\* any of the group and its datasets may be missing
StoreNames == <<"the", "a", "dog", "cat">>
StoreProbs == {Zero, <<1, 4>>, <<1, 2>>, One}
StoreDatasets == {"words", "classes", "probs", "unigram_probs"}

FullStores ==
    {LET n == Len(x[1])
         k == IF n = 0 THEN 0 ELSE SeqMax(x[1]) + 1
         words == SubSeq(StoreNames, 1, n) \o <<SOS, EOS, UNK>> \o x[3]
     IN [vocabulary |-> TRUE,
         words |-> Dataset(words),
         classes |-> Dataset(x[1] \o <<k, k + 1, k + 2>>),
         probs |-> Dataset(x[2] \o <<One, One, One>>),
         unigram_probs |-> Dataset([i \in 1..Len(words) |-> Frac(1, Len(words))])] :
     x \in {y \in SeqsUpTo(0..(MaxStoreWords - 1), MaxStoreWords)
                    \X SeqsUpTo(StoreProbs, MaxStoreWords)
                    \X {<<>>, <<"zzz">>} :
                /\ Len(y[1]) = Len(y[2])
                /\ ValidClassIds(y[1])}}

Without(s, missing) ==
    [name \in DOMAIN s |->
        IF name = "vocabulary" THEN s.vocabulary
        ELSE IF name \in missing THEN [has |-> FALSE, v |-> <<>>] ELSE s[name]]

Stores ==
    {EmptyStore} \cup {Without(s, missing) : s \in FullStores, missing \in SUBSET StoreDatasets}

(***************************************************************************)
(* Spec: small constructions, compute_probs and the queries.               *)
(***************************************************************************)
Next ==
    \/ /\ pc = "init"
       /\ \E c \in SmallRawCalls : Construct(c[1], c[2])
    \/ /\ pc = "init"
       /\ \E c \in SmallFileCalls : FromFile(c[1], c[2], c[3])
    \/ /\ pc = "init"
       /\ \E c \in SmallCountCalls : FromWordCounts(c[1], c[2])
    \/ /\ pc = "ready"
       /\ \E word_counts \in CorpusCounts, update_class_probs \in BOOLEAN :
              ComputeProbs(word_counts, update_class_probs)
    \/ /\ pc = "ready"
       /\ \E words \in QueryLists : WordsToIds(words)
    \/ /\ pc = "ready"
       /\ \E word_ids \in SeqsUpTo(QueryIds(voc), MaxQuery) :
              GetClassMemberships(word_ids)
    \/ /\ pc = "ready"
       /\ \E word_id \in 0..(num_words(voc) - 1) : InShortlist(word_id)
    \/ GetOosLogprobs

Spec == Init /\ [][Next]_vars

(***************************************************************************)
(* SpecBuild: the constructions on larger inputs, saved and loaded; the    *)
(* state is read once get_state has written it.                            *)
(***************************************************************************)
NextBuild ==
    \/ /\ pc = "init"
       /\ \E c \in RawCalls : Construct(c[1], c[2])
    \/ /\ pc = "init"
       /\ \E c \in RawOosCalls : Construct(c[1], c[2])
    \/ /\ pc = "init"
       /\ \E c \in FileCalls : FromFile(c[1], c[2], c[3])
    \/ /\ pc = "init"
       /\ \E c \in FileOosCalls : FromFile(c[1], c[2], c[3])
    \/ /\ pc = "init"
       /\ \E c \in CountCalls : FromWordCounts(c[1], c[2])
    \/ GetState
    \/ /\ state # EmptyStore
       /\ FromState

SpecBuild == Init /\ [][NextBuild]_vars

(***************************************************************************)
(* SpecState: small constructions, compute_probs, the network state and    *)
(* get_oos_logprobs, the reader of the unigram probabilities.              *)
(***************************************************************************)
NextState ==
    \/ /\ pc = "init"
       /\ \E c \in SmallRawCalls : Construct(c[1], c[2])
    \/ /\ pc = "init"
       /\ \E c \in SmallFileCalls : FromFile(c[1], c[2], c[3])
    \/ /\ pc = "init"
       /\ \E c \in SmallCountCalls : FromWordCounts(c[1], c[2])
    \/ /\ pc = "ready"
       /\ \E word_counts \in CorpusCounts, update_class_probs \in BOOLEAN :
              ComputeProbs(word_counts, update_class_probs)
    \/ GetState
    \/ FromState
    \/ GetOosLogprobs

SpecState == Init /\ [][NextState]_vars

(***************************************************************************)
(* SpecLoad: from_state on a network state that some run has written.      *)
(***************************************************************************)
InitLoad ==
    /\ pc = "init"
    /\ call = NoCall
    /\ caller = EmptyLists
    /\ err = ""
    /\ voc = NoVoc
    /\ state \in Stores
    /\ saved = NoSaved
    /\ loaded = NotLoaded
    /\ ret = NoRet

NextLoad == FromState

SpecLoad == InitLoad /\ [][NextLoad]_vars

(***************************************************************************)
(* SpecWrite: get_state on Vocabulary objects made from raw lists, among   *)
(* them lists whose classes miss a word.                                   *)
(***************************************************************************)
NextWrite ==
    \/ /\ pc = "init"
       /\ \E c \in WriteCalls : Construct(c[1], c[2])
    \/ /\ pc = "ready"
       /\ \E word_counts \in CorpusCounts, update_class_probs \in BOOLEAN :
              ComputeProbs(word_counts, update_class_probs)
    \/ GetState

SpecWrite == Init /\ [][NextWrite]_vars

(***************************************************************************)
(* Properties.                                                             *)
(***************************************************************************)
\* the Vocabulary objects that exist: the constructed one, the loaded one
Objects == (IF pc = "ready" THEN {voc} ELSE {}) \cup (IF loaded.ok THEN {loaded.voc} ELSE {})

Present(v, tok) == Contains(v.id_to_word, tok)

IdOf(v, word) == WordToId(v.id_to_word)[word]

\* tok is the sole member of its class, with membership probability 1.0
Alone(v, tok) ==
    LET word_id == IdOf(v, tok)
    IN /\ word_id < num_shortlist_words(v)
       /\ LET class_id == v.word_id_to_class_id[word_id + 1]
          IN /\ class_id < num_classes(v)
             /\ v.word_classes[class_id + 1].members = << <<word_id, One>> >>

\* the word of a well-formed line of a vocabulary file
LineWord(fields, input_format) ==
    IF input_format = "srilm-classes" THEN fields[3] ELSE fields[1]

\* the non-blank lines of the file read by the construction call
FileEntries == SelectSeq(call.input_file, LAMBDA fields : fields # <<>>)

\* the words in the id_to_word list that the constructor was called with
GivenWords ==
    IF call.op = "Vocabulary" THEN Range(call.given.id_to_word)
    ELSE IF call.op = "from_file"
    THEN {LineWord(FileEntries[i], call.input_format) : i \in 1..Len(FileEntries)}
    ELSE {StripSpecials(call.word_counts)[i][1] :
             i \in 1..Len(StripSpecials(call.word_counts))}

\* C1 as claimed: after every construction, whatever the input, each of
\* '<s>', '</s>' and '<unk>' is in the vocabulary and is the sole member of
\* its own class with membership probability 1.0.
C1_Original ==
    \A v \in Objects : \A tok \in Sentinels : Present(v, tok) /\ Alone(v, tok)

\* C1 as amended: after every construction each of '<s>', '</s>' and '<unk>'
\* is in the vocabulary; each of them that was not in the word list given to
\* the constructor is the sole member of its own class with probability 1.0.
C1_SpecialTokens ==
    /\ pc = "ready" =>
           \A tok \in Sentinels :
               /\ Present(voc, tok)
               /\ tok \notin GivenWords => Alone(voc, tok)
    /\ loaded.ok =>
           \A tok \in Sentinels :
               /\ Present(loaded.voc, tok)
               /\ tok \notin Range(loaded.from.words.v) => Alone(loaded.voc, tok)

\* a file gave '<s>' a class that it shares, and the other two were added
C1_Witness ==
    /\ pc = "ready"
    /\ call.op = "from_file"
    /\ SOS \in GivenWords
    /\ ~Alone(voc, SOS)
    /\ Alone(voc, EOS)
    /\ Alone(voc, UNK)

\* the classes as the construction call handed them to the constructor,
\* before normalize_probs()
InitialClasses ==
    IF call.op = "Vocabulary" THEN AddSpecials(call.given).word_classes
    ELSE IF call.op = "from_file"
    THEN AddSpecials(FileLoop(FileLoopInit, call.input_file, call.input_format).lists)
             .word_classes
    ELSE AddSpecials(
             CountLoop(CountLoopInit, SortedByCount(StripSpecials(call.word_counts)),
                       IF call.num_classes.has THEN call.num_classes.n
                       ELSE Len(StripSpecials(call.word_counts))).lists).word_classes

Uniform(wc) == \A i \in 1..WcLen(wc) : wc.members[i][2] = Frac(1, WcLen(wc))

\* C2: right after construction by any strategy the membership probabilities
\* of every class sum to 1, and a class whose initial probabilities sum to
\* zero has probability 1/size for every member.
C2_ClassesSumToOne ==
    /\ \A v \in Objects : \A c \in 1..num_classes(v) : WcTotal(v.word_classes[c]) = One
    /\ pc = "ready" =>
           \A c \in 1..num_classes(voc) :
               WcTotal(InitialClasses[c]) = Zero => Uniform(voc.word_classes[c])

\* a class of two words whose initial probabilities are both 0
C2_Witness ==
    /\ pc = "ready"
    /\ \E c \in 1..num_classes(voc) :
           /\ WcLen(InitialClasses[c]) = 2
           /\ WcTotal(InitialClasses[c]) = Zero
           /\ WcProbs(voc.word_classes[c]) = << <<1, 2>>, <<1, 2>> >>

\* from_state has run on the state that get_state filled, starting from an
\* empty one, with the Vocabulary saved.voc
RoundTrip ==
    /\ saved.has
    /\ saved.voc = voc
    /\ loaded.done
    /\ loaded.from = state

\* C3: get_state into an empty state followed by from_state succeeds and
\* gives a Vocabulary with the same id_to_word, the same word_id_to_class_id
\* and the same membership probability for every shortlist word, with or
\* without out-of-shortlist words.
C3_RoundTrip ==
    RoundTrip =>
        /\ loaded.ok
        /\ loaded.voc.id_to_word = voc.id_to_word
        /\ loaded.voc.word_id_to_class_id = voc.word_id_to_class_id
        /\ \A word_id \in 0..(num_shortlist_words(voc) - 1) :
               get_word_prob(loaded.voc, word_id) = get_word_prob(voc, word_id)

\* C4: words_to_ids returns one ID per input word, each a valid word ID;
\* a word of the vocabulary gets its own ID and any other word the ID of
\* '<unk>'.
C4_WordsToIds ==
    ret.op = "words_to_ids" =>
        /\ Len(ret.ids) = Len(ret.words)
        /\ \A i \in 1..Len(ret.words) :
               /\ ret.ids[i] \in 0..(num_words(voc) - 1)
               /\ voc.id_to_word[ret.ids[i] + 1] =
                      IF Present(voc, ret.words[i]) THEN ret.words[i] ELSE UNK

\* a word outside the vocabulary was translated, '<unk>' not being word 0
C4_Witness ==
    /\ ret.op = "words_to_ids"
    /\ \E i \in 1..Len(ret.words) :
           /\ ~Present(voc, ret.words[i])
           /\ ret.ids[i] = IdOf(voc, UNK)
           /\ ret.ids[i] > 0

\* C5: get_class_memberships gives the class ID and membership probability
\* of '<unk>' for every element >= num_shortlist_words(), the word's own
\* class ID and get_word_prob for every other element, and leaves the
\* caller's array as it was.
C5_ClassMemberships ==
    ret.op = "get_class_memberships" =>
        LET unk_id == IdOf(voc, UNK)
        IN /\ Len(ret.class_ids) = Len(ret.word_ids)
           /\ Len(ret.probs) = Len(ret.word_ids)
           /\ \A i \in 1..Len(ret.word_ids) :
                  LET word_id == IF ret.word_ids[i] >= num_shortlist_words(voc)
                                 THEN unk_id ELSE ret.word_ids[i]
                  IN /\ ret.class_ids[i] = voc.word_id_to_class_id[word_id + 1]
                     /\ ret.probs[i] = get_word_prob(voc, word_id)
           /\ ret.word_ids_after = ret.word_ids

\* the batch held an out-of-shortlist word ID
C5_Witness ==
    /\ ret.op = "get_class_memberships"
    /\ \E i \in 1..Len(ret.word_ids) :
           /\ ret.word_ids[i] >= num_shortlist_words(voc)
           /\ ret.class_ids[i] = voc.word_id_to_class_id[IdOf(voc, UNK) + 1]

\* the correction factors of the out-of-shortlist word IDs
OosPart(logprobs) ==
    [i \in 1..(num_words(voc) - num_shortlist_words(voc)) |->
        Exp(logprobs[num_shortlist_words(voc) + i])]

\* C6, for a vocabulary that has out-of-shortlist words: get_oos_logprobs
\* gives a correction factor of exactly 1 for every shortlist word ID, and
\* the factors of the out-of-shortlist word IDs sum to 1, also when these
\* words all have zero count.
C6_OosLogprobs ==
    (ret.op = "get_oos_logprobs" /\ num_words(voc) > num_shortlist_words(voc)) =>
        /\ \A i \in 1..num_shortlist_words(voc) : Exp(ret.logprobs[i]) = One
        /\ FSum(OosPart(ret.logprobs)) = One

\* C7: the raw-list constructor called with id_to_word and
\* word_id_to_class_id of different lengths fails with ValueError, leaves the
\* caller's three lists as they were and produces no Vocabulary.
C7_SizeMismatch ==
    (/\ call.op = "Vocabulary"
     /\ Len(call.given.id_to_word) # Len(call.given.word_id_to_class_id)) =>
        /\ pc = "failed"
        /\ err = "ValueError"
        /\ caller = call.given
        /\ voc = NoVoc

\* the constructor was called with one word and no class ID
C7_Witness ==
    /\ call.op = "Vocabulary"
    /\ Len(call.given.id_to_word) = 1
    /\ Len(call.given.word_id_to_class_id) = 0
    /\ pc = "failed"

\* the class identifier of a well-formed line, as the format reads it
LineFileId(fields, input_format) ==
    IF input_format = "classes" THEN FileIdInt(IntOf(fields[2])) ELSE FileIdStr(fields[1])

EntryFileId(i) == LineFileId(FileEntries[i], call.input_format)

\* how many class identifiers the file shows before the first line that
\* carries the identifier of entry i
FirstAppearanceRank(i) ==
    LET first == CHOOSE k \in 1..i :
                     /\ EntryFileId(k) = EntryFileId(i)
                     /\ \A j \in 1..(k - 1) : EntryFileId(j) # EntryFileId(i)
    IN Cardinality({EntryFileId(j) : j \in 1..(first - 1)})

TheADog == << <<"the", "0">>, <<"a", "0">>, <<"dog", "1">> >>

\* C8: from_file with format 'classes' or 'srilm-classes' numbers the class
\* identifiers of the file 0,1,2,... in order of first appearance; two words
\* share a class exactly when they share the file's identifier; in 'classes'
\* format a class of k words gives each member probability 1/k; the lines
\* 'the 0', 'a 0', 'dog 1' give 5 classes, {the: 0.5, a: 0.5} and {dog: 1.0}.
C8_FileClasses ==
    (/\ call.op = "from_file"
     /\ call.input_format \in {"classes", "srilm-classes"}
     /\ pc = "ready") =>
        LET n == Len(FileEntries)
        IN /\ \A i \in 1..n :
                  /\ voc.id_to_word[i] = LineWord(FileEntries[i], call.input_format)
                  /\ voc.word_id_to_class_id[i] = FirstAppearanceRank(i)
           /\ \A i, j \in 1..n :
                  (voc.word_id_to_class_id[i] = voc.word_id_to_class_id[j])
                      <=> (EntryFileId(i) = EntryFileId(j))
           /\ call.input_format = "classes" =>
                  \A i \in 1..n :
                      get_word_prob(voc, i - 1) =
                          Frac(1, Cardinality({j \in 1..n : EntryFileId(j) = EntryFileId(i)}))
           /\ (call.input_format = "classes" /\ FileEntries = TheADog) =>
                  /\ num_classes(voc) = 5
                  /\ voc.word_classes[1].members = << <<0, <<1, 2>> >>, <<1, <<1, 2>> >> >>
                  /\ voc.word_classes[2].members = << <<2, One>> >>

\* the file 'the 0', 'a 0', 'dog 1' was read in 'classes' format
C8_Witness ==
    /\ call.op = "from_file"
    /\ call.input_format = "classes"
    /\ call.input_file = TheADog
    /\ pc = "ready"
    /\ voc.word_id_to_class_id = <<0, 0, 1, 2, 3, 4>>

RequiredFields(input_format) ==
    IF input_format = "words" THEN 1 ELSE IF input_format = "classes" THEN 2 ELSE 3

WrongFieldCount ==
    \E i \in 1..Len(FileEntries) :
        Len(FileEntries[i]) # RequiredFields(call.input_format)

RepeatedWord ==
    \E i, j \in 1..Len(FileEntries) :
        /\ i # j
        /\ Len(FileEntries[i]) = RequiredFields(call.input_format)
        /\ Len(FileEntries[j]) = RequiredFields(call.input_format)
        /\ LineWord(FileEntries[i], call.input_format)
               = LineWord(FileEntries[j], call.input_format)

\* C9: from_file fails with an input error and returns no Vocabulary whenever
\* a non-blank line has a field count other than the format's or a word is
\* on more than one line; blank lines change nothing.
C9_FileErrors ==
    call.op = "from_file" =>
        /\ (WrongFieldCount \/ RepeatedWord) =>
               (pc = "failed" /\ err = "InputError" /\ voc = NoVoc)
        /\ LET r == from_file(FileEntries, call.input_format, call.oos_words)
           IN err = r.err /\ voc = r.voc

\* the counts without the special tokens, in the order of the dict
CountedWords == SelectSeq(call.word_counts, LAMBDA item : item[1] \notin Sentinels)

CatDogBird == << <<"cat", 5>>, <<"dog", 1>>, <<"bird", 3>> >>

\* C10: from_word_counts(word_counts, num_classes=N) leaves the special
\* tokens out of the counts, orders the other words by ascending count,
\* gives the word at position r word ID r and class r mod N, every word with
\* probability 1.0 before normalization; {cat:5, dog:1, bird:3} with N=2
\* gives dog, bird, cat in classes 0, 1, 0 and class 0 = {dog: 0.5, cat: 0.5}.
C10_WordCounts ==
    (/\ call.op = "from_word_counts"
     /\ call.num_classes.has
     /\ pc = "ready") =>
        LET n == Len(CountedWords)
            N == call.num_classes.n
            count(r) == DictGet(call.word_counts, voc.id_to_word[r + 1])
        IN /\ num_words(voc) = n + 3
           /\ {voc.id_to_word[r + 1] : r \in 0..(n - 1)}
                  = {CountedWords[i][1] : i \in 1..n}
           /\ \A r, t \in 0..(n - 1) : r < t => count(r) <= count(t)
           /\ \A r \in 0..(n - 1) :
                  /\ voc.word_id_to_class_id[r + 1] = r % N
                  /\ get_word_prob(voc, r) =
                         Frac(1, Cardinality({t \in 0..(n - 1) : t % N = r % N}))
           /\ (call.word_counts = CatDogBird /\ N = 2) =>
                  /\ SubSeq(voc.id_to_word, 1, 3) = <<"dog", "bird", "cat">>
                  /\ SubSeq(voc.word_id_to_class_id, 1, 3) = <<0, 1, 0>>
                  /\ voc.word_classes[1].members = << <<0, <<1, 2>> >>, <<2, <<1, 2>> >> >>

\* from_word_counts({cat:5, dog:1, bird:3}, num_classes=2) was called
C10_Witness ==
    /\ call.op = "from_word_counts"
    /\ call.word_counts = CatDogBird
    /\ call.num_classes = NumClasses(2)
    /\ pc = "ready"
    /\ voc.id_to_word = <<"dog", "bird", "cat", "<s>", "</s>", "<unk>">>

\* C11: from_word_counts(word_counts, num_classes=N) returns a Vocabulary
\* with N classes besides the three classes of the special tokens, for every
\* word-count map and every N, also N above the number of counted words and
\* N = 0; with num_classes=None there is one class per counted word.
C11_ClassCount ==
    call.op = "from_word_counts" =>
        /\ pc = "ready"
        /\ num_classes(voc) =
               (IF call.num_classes.has THEN call.num_classes.n
                ELSE Len(CountedWords)) + 3

RequiredKeys == {"vocabulary", "words", "classes", "probs"}

\* the required keys that the network state s lacks
MissingKeys(s) ==
    {k \in RequiredKeys : IF k = "vocabulary" THEN ~s.vocabulary ELSE ~s[k].has}

IncompatibleStateError ==
    [k \in RequiredKeys |->
        CASE k = "vocabulary" -> "IncompatibleStateError: vocabulary"
          [] k = "words" -> "IncompatibleStateError: words"
          [] k = "classes" -> "IncompatibleStateError: classes"
          [] k = "probs" -> "IncompatibleStateError: probs"]

\* C12: from_state on a state without the group 'vocabulary' or without one
\* of 'words', 'classes', 'probs' fails with IncompatibleStateError naming a
\* key that is missing and returns no Vocabulary; a state without
\* 'unigram_probs' raises no such error and a Vocabulary loaded from it has
\* no unigram probabilities.
C12_MissingKeys ==
    loaded.done =>
        LET s == loaded.from
        IN /\ MissingKeys(s) # {} =>
                  /\ ~loaded.ok
                  /\ loaded.voc = NoVoc
                  /\ \E k \in MissingKeys(s) : loaded.err = IncompatibleStateError[k]
           /\ MissingKeys(s) = {} =>
                  \A k \in RequiredKeys : loaded.err # IncompatibleStateError[k]
           /\ (loaded.ok /\ ~s.unigram_probs.has) => ~has_unigram_probs(loaded.voc)

\* from_state has read a state that has 'words' and 'classes' but neither
\* 'probs' nor 'unigram_probs'
C12_Witness ==
    /\ loaded.done
    /\ MissingKeys(loaded.from) = {"probs"}
    /\ ~loaded.from.unigram_probs.has
    /\ loaded.err = "IncompatibleStateError: probs"

\* C13: from_state assigns the persisted probabilities as they are: every
\* shortlist word ID i of the loaded Vocabulary has get_word_prob(i) equal to
\* entry i of the persisted 'probs', whatever the values of a class sum to.
C13_PersistedProbs ==
    loaded.ok =>
        \A i \in 0..(num_shortlist_words(loaded.voc) - 1) :
            get_word_prob(loaded.voc, i) = loaded.from.probs.v[i + 1]

\* every dataset of the network state s has the length that Vocabulary v
\* writes
SameSize(s, v) ==
    /\ s.words.has => Len(s.words.v) = num_words(v)
    /\ s.classes.has => Len(s.classes.v) = num_shortlist_words(v)
    /\ s.probs.has => Len(s.probs.v) = num_shortlist_words(v)
    /\ s.unigram_probs.has => Len(s.unigram_probs.v) = num_words(v)

\* C14: get_state creates the datasets of group 'vocabulary' that are absent
\* and overwrites those present: a get_state on a state that holds a
\* vocabulary of the same size succeeds, and afterwards 'words', 'classes',
\* 'probs' (and 'unigram_probs' when computed) hold the values of the
\* Vocabulary saved last.
C14_Overwrite ==
    (ret.op = "get_state" /\ SameSize(ret.state_before, voc)) =>
        /\ ret.err = ""
        /\ state.vocabulary
        /\ state.words = Dataset(voc.id_to_word)
        /\ state.classes = Dataset(voc.word_id_to_class_id)
        /\ state.probs = Dataset(MemberProbs(voc))
        /\ has_unigram_probs(voc) =>
               state.unigram_probs = Dataset(voc.unigram_probs.probs)

\* word_id is a member of some class of v
HasClass(v, word_id) ==
    \E c \in 1..num_classes(v) :
        \E i \in 1..WcLen(v.word_classes[c]) : v.word_classes[c].members[i][1] = word_id

\* the word with ID word_id was appended from the oos_words of the call
FromOosWords(v, word_id) ==
    /\ call.oos_words.has
    /\ Contains(call.oos_words.words, v.id_to_word[word_id + 1])
    /\ v.id_to_word[word_id + 1] \notin GivenWords \cup Sentinels

\* C15: for every valid word ID, in_shortlist(id) is True exactly when
\* id < num_shortlist_words(); it is True for every word that has a class and
\* False for every word appended from oos_words.
C15_InShortlist ==
    ret.op = "in_shortlist" =>
        /\ ret.answer <=> ret.word_id < num_shortlist_words(voc)
        /\ HasClass(voc, ret.word_id) => ret.answer
        /\ FromOosWords(voc, ret.word_id) => ~ret.answer

\* in_shortlist was asked about the first word appended from oos_words
C15_Witness ==
    /\ ret.op = "in_shortlist"
    /\ ret.word_id = num_shortlist_words(voc)
    /\ FromOosWords(voc, ret.word_id)
    /\ ~ret.answer

\* the count compute_probs uses for a word: the one of ret.word_counts, 0
\* for a word that is not a key, at least 1 for a special token
CountOf(v, word_id) ==
    LET word == v.id_to_word[word_id + 1]
        keys == {i \in 1..Len(ret.word_counts) : ret.word_counts[i][1] = word}
        count == IF keys = {} THEN 0 ELSE ret.word_counts[CHOOSE i \in keys : TRUE][2]
    IN IF word \in {SOS, EOS, UNK} THEN Max(count, 1) ELSE count

ClassTotal(v, wc) == IntSum([i \in 1..WcLen(wc) |-> CountOf(v, wc.members[i][1])])

C17_UncountedClasses ==
    (ret.op = "compute_probs" /\ ret.update_class_probs) =>
        \A c \in 1..num_classes(voc) :
            (\A i \in 1..WcLen(voc.word_classes[c]) :
                \A k \in 1..Len(ret.word_counts) :
                    ret.word_counts[k][1] #
                        voc.id_to_word[voc.word_classes[c].members[i][1] + 1])
            => voc.word_classes[c] = ret.classes_before[c]

\* the class with ID class_id holds one word, and the word starts with '<'
SpecialSingleton(v, class_id) ==
    /\ WcLen(v.word_classes[class_id + 1]) = 1
    /\ StartsWithLt(v.id_to_word[v.word_classes[class_id + 1].members[1][1] + 1])

\* C18: after construction num_normal_classes is k+1, k the highest ID of a
\* class that is not a singleton of a word starting with '<' (k = -1 when
\* there is none): every class from num_normal_classes on is such a
\* singleton and class num_normal_classes-1, when it exists, is not.
C18_NumNormalClasses ==
    \A v \in Objects :
        /\ v.num_normal_classes \in 0..num_classes(v)
        /\ \A class_id \in v.num_normal_classes..(num_classes(v) - 1) :
               SpecialSingleton(v, class_id)
        /\ v.num_normal_classes > 0 => ~SpecialSingleton(v, v.num_normal_classes - 1)

\* a Vocabulary with a singleton class of a word starting with '<' below a
\* class that is not one
C18_Witness ==
    /\ pc = "ready"
    /\ voc.num_normal_classes > 1
    /\ voc.num_normal_classes < num_classes(voc)
    /\ \E class_id \in 0..(voc.num_normal_classes - 2) : SpecialSingleton(voc, class_id)

\* word_id is a member of the class with ID class_id
Member(v, class_id, word_id) ==
    \E i \in 1..WcLen(v.word_classes[class_id + 1]) :
        v.word_classes[class_id + 1].members[i][1] = word_id

WellFormed(v) ==
    /\ num_words(v) >= num_shortlist_words(v)
    /\ \A word_id \in 0..(num_shortlist_words(v) - 1) :
           /\ v.word_id_to_class_id[word_id + 1] \in 0..(num_classes(v) - 1)
           /\ \A class_id \in 0..(num_classes(v) - 1) :
                  Member(v, class_id, word_id)
                      <=> class_id = v.word_id_to_class_id[word_id + 1]
    /\ \A class_id \in 0..(num_classes(v) - 1) :
           /\ WcLen(v.word_classes[class_id + 1]) >= 1
           /\ v.word_classes[class_id + 1].id = class_id

\* C19: a Vocabulary built by from_file, from_word_counts or from_state has
\* num_words() >= num_shortlist_words(); every shortlist word is a member of
\* the class word_id_to_class_id names and of no other; every class has a
\* member; the class at index c has class ID c.
C19_WellFormed ==
    /\ (pc = "ready" /\ call.op \in {"from_file", "from_word_counts"}) => WellFormed(voc)
    /\ loaded.ok => WellFormed(loaded.voc)

\* from_file has built a Vocabulary with a class of two words and a word
\* outside the shortlist
C19_Witness ==
    /\ pc = "ready"
    /\ call.op = "from_file"
    /\ num_words(voc) > num_shortlist_words(voc)
    /\ \E c \in 1..num_classes(voc) : WcLen(voc.word_classes[c]) = 2

OosWords == IF call.oos_words.has THEN call.oos_words.words ELSE <<>>

\* the positions of oos_words whose word is neither among the words and
\* special tokens of the shortlist nor at an earlier position
NewOosPositions ==
    {i \in 1..Len(OosWords) :
        /\ OosWords[i] \notin GivenWords \cup {SOS, EOS, UNK}
        /\ \A j \in 1..(i - 1) : OosWords[j] # OosWords[i]}

\* C20: construction with oos_words appends, after the shortlist words and
\* the injected special tokens and in order of first appearance, exactly the
\* words of oos_words not yet in the vocabulary; a shortlist word, a special
\* token or a repeated word gets no new ID; no appended word has a class;
\* num_shortlist_words() does not depend on oos_words; no word is twice in
\* id_to_word.
C20_OosWords ==
    (pc = "ready" /\ call.op \in {"Vocabulary", "from_file"}) =>
        LET n == num_shortlist_words(voc)
            appended == SubSeq(voc.id_to_word, n + 1, num_words(voc))
        IN /\ n = Cardinality(GivenWords \cup {SOS, EOS, UNK})
           /\ Range(SubSeq(voc.id_to_word, 1, n)) = GivenWords \cup {SOS, EOS, UNK}
           /\ Len(appended) = Cardinality(NewOosPositions)
           /\ \A i \in NewOosPositions :
                  appended[Cardinality({j \in NewOosPositions : j <= i})] = OosWords[i]
           /\ \A word_id \in n..(num_words(voc) - 1) : ~HasClass(voc, word_id)
           /\ NoDup(voc.id_to_word)

\* the constructor was given the word 'a' and oos_words = ['a', 'zzz']
C20_Witness ==
    /\ pc = "ready"
    /\ call.op = "Vocabulary"
    /\ call.given.id_to_word = <<"a">>
    /\ call.oos_words = SomeOos(<<"a", "zzz">>)
    /\ voc.id_to_word = <<"a", "<s>", "</s>", "<unk>", "zzz">>

\* C21: a get_state that fails leaves the datasets of group 'vocabulary' as
\* they were before the call, so that no part of 'words', 'classes',
\* 'probs', 'unigram_probs' is written without the rest; and get_state
\* leaves the Vocabulary object as it was.
C21_ExceptionSafe ==
    ret.op = "get_state" =>
        /\ ret.err # "" =>
               \A name \in StoreDatasets : state[name] = ret.state_before[name]
        /\ voc = ret.voc_before

\* what C22 says of a single state: the last call was compute_probs, or a
\* Vocabulary was loaded
UnigramNow ==
    /\ ret.op = "compute_probs" => has_unigram_probs(voc)
    /\ loaded.ok => (has_unigram_probs(loaded.voc) <=> loaded.from.unigram_probs.has)

\* what C22 says of a single step
UnigramStep ==
    /\ (pc = "init" /\ pc' = "ready") => ~has_unigram_probs(voc')
    /\ (pc = "ready" /\ has_unigram_probs(voc)) => has_unigram_probs(voc')
    /\ (pc = "ready" /\ ~has_unigram_probs(voc) /\ has_unigram_probs(voc')) =>
           ret'.op = "compute_probs"

\* C22: has_unigram_probs() is false right after construction from raw
\* lists, a file or word counts and after from_state on a state without
\* 'unigram_probs'; it is true after from_state on a state with
\* 'unigram_probs' and after a compute_probs call with either value of
\* update_class_probs; once true it stays true under later compute_probs,
\* get_state and query calls, and only compute_probs makes it true.
C22_UnigramProbs == [](UnigramNow) /\ [][UnigramStep]_vars

\* compute_probs, get_state and from_state have run: the object and the one
\* loaded from its state have unigram probabilities
C22_Witness ==
    /\ pc = "ready"
    /\ has_unigram_probs(voc)
    /\ ret.op = "get_state"
    /\ loaded.ok
    /\ has_unigram_probs(loaded.voc)

\* C23: in every Vocabulary the constructor produces, the word IDs of '<s>',
\* '</s>' and '<unk>' are below num_shortlist_words(), also when oos_words
\* lists a special token; so the ID that get_class_memberships puts in place
\* of an out-of-shortlist ID has a class, the one returned for it.
C23_SpecialsInShortlist ==
    /\ \A v \in Objects : \A tok \in {SOS, EOS, UNK} :
           /\ IdOf(v, tok) < num_shortlist_words(v)
           /\ HasClass(v, IdOf(v, tok))
    /\ ret.op = "get_class_memberships" =>
           \A i \in 1..Len(ret.word_ids) :
               ret.word_ids[i] >= num_shortlist_words(voc) =>
                   /\ ret.class_ids[i] \in 0..(num_classes(voc) - 1)
                   /\ Member(voc, ret.class_ids[i], IdOf(voc, UNK))

\* get_class_memberships was given an out-of-shortlist ID of a Vocabulary
\* built with '<unk>' among its oos_words
C23_Witness ==
    /\ ret.op = "get_class_memberships"
    /\ call.oos_words.has
    /\ Contains(call.oos_words.words, UNK)
    /\ Len(ret.word_ids) >= 1
    /\ ret.word_ids[1] >= num_shortlist_words(voc)
    /\ ret.class_ids[1] = voc.word_id_to_class_id[IdOf(voc, UNK) + 1]

=============================================================================
